---- MODULE Spec2Model ----
(***************************************************************************)
(* Model of the Google Apps Script webhook triggers of expo-oman.          *)
(*                                                                         *)
(* Four script variants exist in the repository:                           *)
(*   "V14": src/GOOGLE-APPS-SCRIPT-WEBHOOK-TRIGGER.js  (14 columns)        *)
(*   "VA" : src/unnamed/part_000                       (13 columns)        *)
(*   "VB" : src/unnamed/part_001, lines 1..402         (13 columns)        *)
(*   "VC" : src/unnamed/part_001, lines 594..1024      (13 columns)        *)
(*                                                                         *)
(* Text is modelled as a sequence of one-character strings so that trim    *)
(* and toLowerCase are computed and not assumed. A cell value is a tagged  *)
(* record: text, number, date, or undefined (index past the row's end).    *)
(***************************************************************************)
EXTENDS Integers, Sequences, FiniteSets, TLC

Variants == {"V14", "VA", "VB", "VC"}

-----------------------------------------------------------------------------
(* JavaScript values and the string operations the scripts use *)

Str(s) == [t |-> "str", s |-> s, n |-> 0]
Num(n) == [t |-> "num", s |-> <<>>, n |-> n]
DateV(d) == [t |-> "date", s |-> <<>>, n |-> d]
Undef == [t |-> "undef", s |-> <<>>, n |-> 0]
EmptyStr == Str(<<>>)

\* White space removed by String.prototype.trim
IsSpace(c) == c \in {" ", "\t"}

LowerChar(c) ==
  CASE c = "A" -> "a"
    [] c = "B" -> "b"
    [] c = "C" -> "c"
    [] c = "D" -> "d"
    [] c = "E" -> "e"
    [] c = "F" -> "f"
    [] c = "G" -> "g"
    [] c = "H" -> "h"
    [] c = "I" -> "i"
    [] c = "J" -> "j"
    [] c = "K" -> "k"
    [] c = "L" -> "l"
    [] c = "M" -> "m"
    [] c = "N" -> "n"
    [] c = "O" -> "o"
    [] c = "P" -> "p"
    [] c = "Q" -> "q"
    [] c = "R" -> "r"
    [] c = "S" -> "s"
    [] c = "T" -> "t"
    [] c = "U" -> "u"
    [] c = "V" -> "v"
    [] c = "W" -> "w"
    [] c = "X" -> "x"
    [] c = "Y" -> "y"
    [] c = "Z" -> "z"
    [] OTHER -> c

IsUpper(c) == LowerChar(c) # c

\* String.prototype.toLowerCase
ToLowerCase(s) == [i \in 1..Len(s) |-> LowerChar(s[i])]

RECURSIVE TrimStart(_)
TrimStart(s) ==
  IF s # <<>> /\ IsSpace(Head(s)) THEN TrimStart(Tail(s)) ELSE s

RECURSIVE TrimEnd(_)
TrimEnd(s) ==
  IF s # <<>> /\ IsSpace(s[Len(s)]) THEN TrimEnd(SubSeq(s, 1, Len(s) - 1)) ELSE s

\* String.prototype.trim
Trim(s) == TrimEnd(TrimStart(s))

DigitChar(k) ==
  CASE k = 0 -> "0" [] k = 1 -> "1" [] k = 2 -> "2" [] k = 3 -> "3"
    [] k = 4 -> "4" [] k = 5 -> "5" [] k = 6 -> "6" [] k = 7 -> "7"
    [] k = 8 -> "8" [] k = 9 -> "9"

RECURSIVE NatToString(_)
NatToString(n) ==
  IF n < 10 THEN <<DigitChar(n)>>
  ELSE NatToString(n \div 10) \o <<DigitChar(n % 10)>>

\* Number.prototype.toString for the integers a sheet cell holds
NumToString(n) == IF n < 0 THEN <<"-">> \o NatToString(-n) ELSE NatToString(n)

\* Date.prototype.toISOString; a date is identified by its day number d
ToISOString(d) == <<"2", "0", "2", "5", "-", "1", "2", "-">> \o
                  (IF d < 10 THEN <<"0">> ELSE <<>>) \o NatToString(d) \o <<"T", "Z">>

\* Date.prototype.toString (local, human readable form)
DateToString(d) == <<"S", "a", "t", " ">> \o NatToString(d)

\* JavaScript truthiness of a cell value
Truthy(v) ==
  CASE v.t = "str" -> v.s # <<>>
    [] v.t = "num" -> v.n # 0
    [] v.t = "date" -> TRUE
    [] OTHER -> FALSE

\* a || b
Or(a, b) == IF Truthy(a) THEN a ELSE b

\* value.toString() of a defined value
JsToString(v) ==
  CASE v.t = "str" -> v.s
    [] v.t = "num" -> NumToString(v.n)
    [] v.t = "date" -> DateToString(v.n)

\* rowData[i - 1] for the 1-based column i: undefined past the end of the array
At(rowData, i) == IF i \in 1..Len(rowData) THEN rowData[i] ELSE Undef

\* (x || dflt).toString().trim()
TrimmedOr(x, dflt) == Str(Trim(JsToString(Or(x, dflt))))

\* if (x) { x = x.toString().trim() }
TrimIfTruthy(x) == IF Truthy(x) THEN Str(Trim(JsToString(x))) ELSE x

-----------------------------------------------------------------------------
(* Configuration: COLUMN_MAPPING of each variant *)

COLUMN_MAPPING(v) ==
  IF v = "V14"
  THEN [TIMESTAMP |-> 1, NAME |-> 2, EMAIL |-> 3, PHONE |-> 4, LANGUAGE |-> 5,
        STATUS |-> 6, DATE_ADDED |-> 7, RESPONSE |-> 12, RESPONSE_DATE |-> 13,
        COMMENTS |-> 14]
  ELSE [NAME |-> 1, EMAIL |-> 2, PHONE |-> 3, LANGUAGE |-> 4, STATUS |-> 5,
        DATE_ADDED |-> 6, EMAIL_1_DATE |-> 7, EMAIL_2_DATE |-> 8,
        EMAIL_3_DATE |-> 9, NOTES |-> 10, RESPONSE |-> 11,
        RESPONSE_DATE |-> 12, COMMENTS |-> 13]

\* Number of columns of the sheet each variant documents
NumColumns(v) == IF v = "V14" THEN 14 ELSE 13

\* rowData[COLUMN_MAPPING.<key> - 1]
Cell(v, rowData, key) == At(rowData, COLUMN_MAPPING(v)[key])

-----------------------------------------------------------------------------
(* getFormData: the timestamp *)

\* 14-column variant: Timestamp column, else Date Added, else now; Date -> ISO
TimestampV14(rowData, now) ==
  LET t0 == Cell("V14", rowData, "TIMESTAMP")
      da == Cell("V14", rowData, "DATE_ADDED")
      t1 == IF ~Truthy(t0) /\ Truthy(da) THEN da ELSE t0
      t2 == IF ~Truthy(t1) THEN DateV(now) ELSE t1
  IN  IF t2.t = "date" THEN Str(ToISOString(t2.n)) ELSE t2

\* part_000: Date Added, falsy -> now; Date -> ISO; string kept; else now
TimestampVA(rowData, now) ==
  LET t0 == Cell("VA", rowData, "DATE_ADDED")
      t1 == IF ~Truthy(t0) THEN DateV(now) ELSE t0
  IN  IF t1.t = "date" THEN Str(ToISOString(t1.n))
      ELSE IF Truthy(t1) /\ t1.t = "str" THEN t1
      ELSE Str(ToISOString(now))

\* part_001 (first script): Date -> ISO; non-empty string kept; else now
TimestampVB(rowData, now) ==
  LET t0 == Cell("VB", rowData, "DATE_ADDED")
  IN  IF t0.t = "date" THEN Str(ToISOString(t0.n))
      ELSE IF Truthy(t0) /\ t0.t = "str" THEN t0
      ELSE Str(ToISOString(now))

\* Mutant of TimestampVC: without the test timestamp.trim() !== ''
TimestampVCNoTrim(rowData, now) ==
  LET t0 == Cell("VC", rowData, "DATE_ADDED")
  IN  IF t0.t = "date" THEN Str(ToISOString(t0.n))
      ELSE IF Truthy(t0) /\ t0.t = "str" THEN t0
      ELSE Str(ToISOString(now))

\* part_001 (second script): as VB, and the string must not trim to empty
TimestampVC(rowData, now) ==
  LET t0 == Cell("VC", rowData, "DATE_ADDED")
  IN  IF t0.t = "date" THEN Str(ToISOString(t0.n))
      ELSE IF Truthy(t0) /\ t0.t = "str" /\ Trim(t0.s) # <<>> THEN t0
      ELSE Str(ToISOString(now))

Timestamp(v, rowData, now) ==
  CASE v = "V14" -> TimestampV14(rowData, now)
    [] v = "VA" -> TimestampVA(rowData, now)
    [] v = "VB" -> TimestampVB(rowData, now)
    [] v = "VC" -> TimestampVC(rowData, now)

-----------------------------------------------------------------------------
(* getFormData: the fields *)

\* Mutant of EmailV14: the email is lower-cased but not trimmed
EmailV14NoTrim(rowData, v) ==
  LET e0 == Or(Cell(v, rowData, "EMAIL"), EmptyStr)
  IN  IF Truthy(e0) THEN Str(ToLowerCase(JsToString(e0))) ELSE e0

\* GOOGLE-APPS-SCRIPT-WEBHOOK-TRIGGER.js and part_000:
\*   email: rowData[EMAIL - 1] || '' ; if (data.email) trim, lower-case
EmailV14(rowData, v) ==
  LET e0 == Or(Cell(v, rowData, "EMAIL"), EmptyStr)
  IN  IF Truthy(e0) THEN Str(ToLowerCase(Trim(JsToString(e0)))) ELSE e0

\* Mutant of EmailVB: the email is trimmed but not lower-cased
EmailVBNoLowerCase(rowData, v) == TrimmedOr(Cell(v, rowData, "EMAIL"), EmptyStr)

\* part_001 (both scripts):
\*   email: (rowData[EMAIL - 1] || '').toString().trim() ; if (data.email) lower-case, trim
EmailVB(rowData, v) ==
  LET e0 == TrimmedOr(Cell(v, rowData, "EMAIL"), EmptyStr)
  IN  IF Truthy(e0) THEN Str(Trim(ToLowerCase(e0.s))) ELSE e0

Email(v, rowData) ==
  IF v \in {"V14", "VA"} THEN EmailV14(rowData, v) ELSE EmailVB(rowData, v)

\* Mutant of DefaultLanguage: the language has no default
DefaultLanguageEmpty == EmptyStr

\* the 'en' of rowData[COLUMN_MAPPING.LANGUAGE - 1] || 'en'
DefaultLanguage == Str(<<"e", "n">>)

\* Mutant of Language: the second script of part_001 without .toLowerCase()
LanguageNoLowerCase(v, rowData) ==
  LET c == Cell(v, rowData, "LANGUAGE")
  IN  IF v \in {"V14", "VA"} THEN Or(c, DefaultLanguage) ELSE TrimmedOr(c, DefaultLanguage)

\* language: only the second script of part_001 lower-cases it
Language(v, rowData) ==
  LET c == Cell(v, rowData, "LANGUAGE")
  IN  CASE v \in {"V14", "VA"} -> Or(c, DefaultLanguage)
        [] v = "VB" -> TrimmedOr(c, DefaultLanguage)
        [] v = "VC" -> Str(ToLowerCase(TrimmedOr(c, DefaultLanguage).s))

\* name and phone: trimmed in every variant (only when truthy in the older two)
Trimmed(v, rowData, key) ==
  IF v \in {"V14", "VA"}
  THEN TrimIfTruthy(Or(Cell(v, rowData, key), EmptyStr))
  ELSE TrimmedOr(Cell(v, rowData, key), EmptyStr)

\* status, response, responseDate, comments: left as they are in the older two
Plain(v, rowData, key) ==
  IF v \in {"V14", "VA"}
  THEN Or(Cell(v, rowData, key), EmptyStr)
  ELSE TrimmedOr(Cell(v, rowData, key), EmptyStr)

\* Mutant of Guarded: the cell is used as it is, without its || default
Unguarded(x, dflt) == x

\* rowData[i] || dflt : the value getFormData goes on to call a method of
Guarded(x, dflt) == Or(x, dflt)

\* the values whose .toString() getFormData calls: in the older two scripts
\* only inside if (data.name), if (data.email), if (data.phone)
MethodReceivers(v, rowData) ==
  IF v \in {"V14", "VA"}
  THEN {x \in {Guarded(Cell(v, rowData, k), EmptyStr) : k \in {"NAME", "EMAIL", "PHONE"}} :
          Truthy(x)}
  ELSE {Guarded(Cell(v, rowData, k), EmptyStr) :
          k \in {"NAME", "EMAIL", "PHONE", "STATUS", "RESPONSE", "RESPONSE_DATE", "COMMENTS"}}
       \cup {Guarded(Cell(v, rowData, "LANGUAGE"), Str(<<"e", "n">>))}

\* a method call on undefined throws a TypeError
GetFormDataThrows(v, rowData) == \E x \in MethodReceivers(v, rowData) : x.t = "undef"

\* the object getFormData returns (the key dateAdded is absent in the 14-column script)
getFormData(v, rowData, now) ==
  LET response == Plain(v, rowData, "RESPONSE")
      base == [timestamp |-> Timestamp(v, rowData, now),
               name |-> Trimmed(v, rowData, "NAME"),
               email |-> Email(v, rowData),
               phone |-> Trimmed(v, rowData, "PHONE"),
               language |-> Language(v, rowData),
               status |-> Plain(v, rowData, "STATUS"),
               response |-> response,
               responseDate |-> Plain(v, rowData, "RESPONSE_DATE"),
               comments |-> Plain(v, rowData, "COMMENTS"),
               attendance |-> Or(response, EmptyStr)]
  IN  IF v = "V14" THEN base
      ELSE [k \in DOMAIN base \cup {"dateAdded"} |->
              IF k = "dateAdded" THEN Or(Cell(v, rowData, "DATE_ADDED"), EmptyStr)
              ELSE base[k]]

\* Mutant of EmailMissing: the check tests for undefined only
EmailMissingOnlyUndefined(formData) == formData.email = Undef

\* if (!formData.email || formData.email.trim() === '')
EmailMissing(formData) ==
  \/ ~Truthy(formData.email)
  \/ Trim(formData.email.s) = <<>>

-----------------------------------------------------------------------------
(* sendToWebhook: identical in the four scripts *)

\* data.<k>: undefined when the object has no such key
Field(data, k) == IF k \in DOMAIN data THEN data[k] ELSE Undef

PayloadKeys == {"timestamp", "name", "email", "phone", "language", "status",
                "attendance", "response", "responseDate", "comments"}

\* Mutant of Attendance: the fallback reads the wrong field
AttendanceOrStatus(data) ==
  Or(Or(Field(data, "attendance"), Field(data, "status")), EmptyStr)

\* Mutant of Attendance: no fallback to the response
AttendanceNoFallback(data) == Or(Field(data, "attendance"), EmptyStr)

\* attendance: data.attendance || data.response || ''
Attendance(data) ==
  Or(Or(Field(data, "attendance"), Field(data, "response")), EmptyStr)

\* Mutant of Payload: the record is sent as it was passed in
PayloadIsData(data) == data

\* const payload = { ... }
Payload(data) ==
  [timestamp |-> Field(data, "timestamp"),
   name |-> Field(data, "name"),
   email |-> Field(data, "email"),
   phone |-> Or(Field(data, "phone"), EmptyStr),
   language |-> Or(Field(data, "language"), Str(<<"e", "n">>)),
   status |-> Or(Field(data, "status"), EmptyStr),
   attendance |-> Attendance(data),
   response |-> Or(Field(data, "response"), EmptyStr),
   responseDate |-> Or(Field(data, "responseDate"), EmptyStr),
   comments |-> Or(Field(data, "comments"), EmptyStr)]

\* the JSON value JSON.stringify writes for a payload value: a string stays a
\* string, a number is written as a number, a Date as its ISO string (toJSON)
JsonValue(x) == IF x.t = "date" THEN Str(ToISOString(x.n)) ELSE x

\* JSON.stringify(payload): a key whose value is undefined is left out
JsonStringify(payload) ==
  [k \in {j \in DOMAIN payload : payload[j].t # "undef"} |-> JsonValue(payload[k])]

\* Mutant of IsSuccessCode: only 200 counts as success
IsSuccessCodeOnly200(responseCode) == responseCode = 200

\* Mutant of IsSuccessCode: the upper limit is included
IsSuccessCodeUpTo300(responseCode) == responseCode >= 200 /\ responseCode <= 300

\* responseCode >= 200 && responseCode < 300
IsSuccessCode(responseCode) == responseCode >= 200 /\ responseCode < 300

\* error.toString() of the exception UrlFetchApp.fetch throws
ErrorToString(err) ==
  CASE err = "dns" -> "Exception: DNS error"
    [] err = "timeout" -> "Exception: Timeout"
    [] err = "unreachable" -> "Exception: Address unavailable"

\* What UrlFetchApp.fetch does: with muteHttpExceptions it returns every HTTP
\* response, whatever its status, and throws only on a transport failure.
HttpResponse(code, body) == [kind |-> "response", code |-> code, body |-> body, err |-> ""]
HttpThrow(err) == [kind |-> "throw", code |-> 0, body |-> "", err |-> err]

\* the value sendToWebhook returns for the outcome of its one fetch
ResultOfFetch(o) ==
  IF o.kind = "response"
  THEN IF IsSuccessCode(o.code)
       THEN [success |-> TRUE, statusCode |-> o.code, response |-> o.body]
       ELSE [success |-> FALSE, statusCode |-> o.code, error |-> o.body]
  ELSE [success |-> FALSE, error |-> ErrorToString(o.err)]

-----------------------------------------------------------------------------
(* The sheet and the rows a form submission appends *)

\* Bounds of the model
MaxFill == 1
MaxSubmits == 2
MaxDay == 3

\* One row of the sheet: the cells of f at their mapped columns, '' elsewhere
MkRow(v, f) ==
  [i \in 1..NumColumns(v) |->
     LET ks == {k \in DOMAIN COLUMN_MAPPING(v) \cap DOMAIN f : COLUMN_MAPPING(v)[k] = i}
     IN  IF ks = {} THEN EmptyStr ELSE f[CHOOSE k \in ks : TRUE]]

\* Row 1 of the sheet: the column titles
Header(v) ==
  MkRow(v, [TIMESTAMP |-> Str(<<"T", "i", "m", "e">>),
            NAME |-> Str(<<"N", "a", "m", "e">>),
            EMAIL |-> Str(<<"E", "m", "a", "i", "l">>),
            PHONE |-> Str(<<"P", "h", "o", "n", "e">>),
            LANGUAGE |-> Str(<<"L", "a", "n", "g">>),
            STATUS |-> Str(<<"S", "t", "a", "t", "u", "s">>),
            DATE_ADDED |-> Str(<<"D", "a", "t", "e">>),
            RESPONSE |-> Str(<<"R", "e", "s", "p">>),
            RESPONSE_DATE |-> Str(<<"R", "D", "a", "t", "e">>),
            COMMENTS |-> Str(<<"C", "o", "m">>)])

BaseFields ==
  [TIMESTAMP |-> DateV(1),
   NAME |-> Str(<<"A", "n", "n">>),
   EMAIL |-> Str(<<"a", "@", "b">>),
   PHONE |-> Str(<<"9", "6", "8">>),
   LANGUAGE |-> Str(<<"a", "r">>),
   STATUS |-> Str(<<"n", "e", "w">>),
   DATE_ADDED |-> DateV(2),
   RESPONSE |-> Str(<<"Y", "e", "s">>),
   RESPONSE_DATE |-> EmptyStr,
   COMMENTS |-> EmptyStr]

Dates == {DateV(d) : d \in 1..MaxDay}

EmailCells ==
  {EmptyStr, Str(<<" ">>), Str(<<" ", "\t">>), Str(<<"a", "@", "b">>),
   Str(<<" ", "T", "@", "E", ".", "C", " ">>), Str(<<"c", "@", "d">>),
   Num(0), Num(7), DateV(MaxDay)}

LanguageCells ==
  {EmptyStr, Str(<<" ">>), Str(<<"A", "R">>), Str(<<" ", "A", "R", " ">>),
   Str(<<"e", "n">>), Num(0)}

DateAddedCells ==
  {EmptyStr, Str(<<" ">>), Str(<<"2", "0", "2", "5">>), Num(0), Num(5)} \cup Dates

TimestampCells == {EmptyStr, Str(<<"n", "o", "w">>), Num(0), Num(5), DateV(1)}

OtherCells == {EmptyStr, Str(<<" ">>), Str(<<" ", "N", "o", " ">>), Num(0), Num(12), DateV(1)}

\* The rows of the model: the base row with one cell (or two) varied
FieldSets ==
  {[BaseFields EXCEPT !.EMAIL = c] : c \in EmailCells}
  \cup {[BaseFields EXCEPT !.LANGUAGE = c] : c \in LanguageCells}
  \cup {[BaseFields EXCEPT !.DATE_ADDED = c] : c \in DateAddedCells}
  \cup {[BaseFields EXCEPT !.TIMESTAMP = c, !.DATE_ADDED = d] :
           c \in TimestampCells, d \in {EmptyStr, DateV(2)}}
  \cup {[BaseFields EXCEPT !.NAME = c, !.PHONE = c] : c \in OtherCells}
  \cup {[BaseFields EXCEPT !.STATUS = c, !.COMMENTS = c] : c \in OtherCells}
  \cup {[BaseFields EXCEPT !.RESPONSE = c, !.RESPONSE_DATE = c] : c \in OtherCells}

Rows(v) == {MkRow(v, f) : f \in FieldSets}

\* The rows submitted in the overlapping-submissions scenario
ConcRows(v) ==
  {MkRow(v, [BaseFields EXCEPT !.EMAIL = c]) :
     c \in {EmptyStr, Str(<<"a", "@", "b">>), Str(<<"c", "@", "d">>)}}

\* Filler(v): an earlier data row, above the last one
Filler(v) == MkRow(v, [BaseFields EXCEPT !.EMAIL = Str(<<"o", "l", "d", "@", "x">>)])

\* Widths of a sheet that has fewer columns than the mapping names
ShortWidths == {1, 3, 5}

\* The leading w cells of a row: what getValues returns when the sheet's last
\* column is w
Narrow(r, w) == SubSeq(r, 1, w)

\* The rows of a narrow sheet
ShortFieldSets ==
  {BaseFields,
   [BaseFields EXCEPT !.EMAIL = Str(<<" ", "T", "@", "E", ".", "C", " ">>),
                      !.LANGUAGE = EmptyStr]}

\* Sheet states an invocation may find: empty, the header alone, the header
\* followed by up to MaxFill earlier rows and the last row, or a narrow sheet
\* of a header and one row
InitSheets(v) ==
  {<<>>, <<Header(v)>>}
  \cup {<<Header(v)>> \o [i \in 1..k |-> Filler(v)] \o <<r>> :
          k \in 0..MaxFill, r \in Rows(v)}
  \cup {<<Narrow(Header(v), w), Narrow(MkRow(v, f), w)>> :
          w \in ShortWidths, f \in ShortFieldSets}

\* The arrays getFormData is called with on its own: the empty array, narrow
\* rows, and full rows
Arrays(v) ==
  {<<>>}
  \cup {Narrow(MkRow(v, f), w) : w \in ShortWidths, f \in ShortFieldSets}
  \cup Rows(v)

\* What the one fetch of a sendToWebhook call may do
FetchOutcomes ==
  {HttpResponse(c, b) : c \in {199, 200, 204, 299, 300, 404, 500},
                        b \in {"", "OK", "Internal Error"}}
  \cup {HttpThrow(e) : e \in {"dns", "timeout", "unreachable"}}

-----------------------------------------------------------------------------
(* State *)

VARIABLES
  variant,      \* which of the four scripts is installed
  sheetExists,  \* whether the spreadsheet has a sheet named SHEET_NAME
  sheet,        \* the rows of that sheet, row 1 first
  inv           \* the invocations: handler id -> its local state

vars == <<variant, sheetExists, sheet, inv>>

Null == [null |-> TRUE]

\* An invocation that has not started
Idle ==
  [fn |-> "none", pc |-> "idle", e |-> "none", trig |-> 0, lastRow |-> 0,
   rowData |-> <<>>, now |-> 0, formData |-> Null, sent |-> <<>>, body |-> <<>>,
   fetch |-> Null, result |-> Null, log |-> <<>>, outcome |-> "none"]

\* Logger.log(msg + detail)
LogMsg(msg, detail) == [msg |-> msg, detail |-> detail]

\* the handler returns: its outcome is settled and nothing of it runs any more
Returned(r, outcome, entries) ==
  [r EXCEPT !.pc = "done", !.outcome = outcome, !.log = @ \o entries]

\* Mutant of HasTryCatch: the 14-column script without its try/catch
HasTryCatchNotV14(v) == v \in {"VA", "VB", "VC"}

\* Whether the body of onFormSubmit runs inside try { } catch (error) { }
HasTryCatch(v) == v \in {"V14", "VA", "VB", "VC"}

\* Mutant of CatchLog: an empty catch block
CatchLogSilent(v, error) == <<>>

\* the entries the catch block of onFormSubmit logs
CatchLog(v, error) ==
  IF v \in {"VB", "VC"}
  THEN <<LogMsg("Error in onFormSubmit", error), LogMsg("Stack trace", error)>>
  ELSE <<LogMsg("Error in onFormSubmit", error)>>

\* the entries the catch block of testLastRow logs
TestCatchLog(v, error) ==
  IF v \in {"VB", "VC"}
  THEN <<LogMsg("Error in testLastRow", error), LogMsg("Stack trace", error)>>
  ELSE <<LogMsg("Error in testLastRow", error)>>

\* an exception is thrown inside the handler: the catch block logs it and the
\* handler returns; without a catch block (getFormData called on its own,
\* testWebhook) the exception leaves the function
Thrown(v, r, error) ==
  CASE r.fn = "onFormSubmit" ->
         IF HasTryCatch(v)
         THEN Returned(r, "fault", CatchLog(v, error))
         ELSE Returned(r, "escaped", <<>>)
    [] r.fn = "testLastRow" -> Returned(r, "fault", TestCatchLog(v, error))
    [] OTHER -> Returned(r, "escaped", <<>>)

\* if (!e || !e.source) { ... return; }  (absent from the 14-column script)
HasEventGuard(v) == v \in {"VA", "VB", "VC"}

\* if (lastRow < 2) { ... return; }  (only in the two scripts of part_001)
HasDataRowGuard(v) == v \in {"VB", "VC"}

\* new Date(): the current time is later than every date of the sheet
Clock == {MaxDay + 1, MaxDay + 2}

-----------------------------------------------------------------------------
(* onFormSubmit, one action per step of its body *)

\* The trigger (e = "form") or a run from the editor (no e, or an e without
\* source) calls onFormSubmit(e)
Invoke(h, e) ==
  /\ inv[h].pc = "idle"
  /\ inv' = [inv EXCEPT ![h].fn = "onFormSubmit", ![h].pc = "start", ![h].e = e]
  /\ UNCHANGED <<variant, sheetExists, sheet>>

NoEventLog == <<LogMsg("Error: This function must be triggered by a form submission.", ""),
                LogMsg("To test manually, use testLastRow() or testWebhook()", "")>>

NoSheetLog(v) ==
  IF v \in {"VB", "VC"}
  THEN <<LogMsg("Error: Sheet not found", ""), LogMsg("Available sheets", "")>>
  ELSE <<LogMsg("Error: Sheet not found", "")>>

\* the event check and e.source.getSheetByName(SHEET_NAME)
Start(h) ==
  /\ inv[h].pc = "start" /\ inv[h].fn = "onFormSubmit"
  /\ inv' = [inv EXCEPT ![h] =
       IF inv[h].e # "form"
       THEN IF HasEventGuard(variant)
            THEN Returned(@, "noEvent", NoEventLog)
            ELSE Thrown(variant, @, "TypeError: Cannot read properties of undefined")
       ELSE IF ~sheetExists
            THEN Returned(@, "noSheet", NoSheetLog(variant))
            ELSE [@ EXCEPT !.pc = "lastRow"]]
  /\ UNCHANGED <<variant, sheetExists, sheet>>

\* the line testLastRow logs once it has found a data row
ProcessingLog(fn) ==
  IF fn = "testLastRow" THEN <<LogMsg("Processing last row", "")>> ELSE <<>>

\* const lastRow = sheet.getLastRow(), and the check for a data row (every
\* testLastRow has it)
GetLastRow(h) ==
  /\ inv[h].pc = "lastRow"
  /\ inv' = [inv EXCEPT ![h] =
       LET r == [@ EXCEPT !.lastRow = Len(sheet)]
       IN  IF (r.fn = "testLastRow" \/ HasDataRowGuard(variant)) /\ r.lastRow < 2
           THEN Returned(r, "noData", <<LogMsg("Error: No data rows found", "")>>)
           ELSE [r EXCEPT !.pc = "range", !.log = @ \o ProcessingLog(r.fn)]]
  /\ UNCHANGED <<variant, sheetExists, sheet>>

\* sheet.getRange(lastRow, 1, 1, sheet.getLastColumn()).getValues()[0]:
\* getRange throws for row 0 (an empty sheet has no last row and no last column)
GetRange(h) ==
  /\ inv[h].pc = "range"
  /\ inv' = [inv EXCEPT ![h] =
       IF inv[h].lastRow < 1
       THEN Thrown(variant, @, "Exception: The starting row of the range is too small.")
       ELSE [@ EXCEPT !.rowData = sheet[inv[h].lastRow], !.pc = "normalize"]]
  /\ UNCHANGED <<variant, sheetExists, sheet>>

\* the spreadsheet service fails while the row is read
ServiceFault(h) ==
  /\ inv[h].pc = "range"
  /\ inv' = [inv EXCEPT ![h] = Thrown(variant, @, "Exception: Service Spreadsheets failed")]
  /\ UNCHANGED <<variant, sheetExists, sheet>>

\* the lines testLastRow logs about the record getFormData returned
ExtractedLog(fn, formData) ==
  IF fn = "testLastRow"
  THEN <<LogMsg("Data extracted: Name", formData.name),
         LogMsg("Data extracted: Email", formData.email),
         LogMsg("Data extracted: Language", formData.language)>>
  ELSE <<>>

\* const formData = getFormData(rowData); a call of getFormData on its own
\* ends here
Normalize(h) ==
  /\ inv[h].pc = "normalize"
  /\ \E now \in Clock :
       inv' = [inv EXCEPT ![h] =
         IF GetFormDataThrows(variant, inv[h].rowData)
         THEN Thrown(variant, [@ EXCEPT !.now = now],
                     "TypeError: Cannot read properties of undefined")
         ELSE LET formData == getFormData(variant, inv[h].rowData, now)
                  r == [@ EXCEPT !.now = now, !.formData = formData]
              IN  IF inv[h].fn = "getFormData"
                  THEN Returned(r, "returned", <<>>)
                  ELSE [r EXCEPT !.pc = "validate",
                                 !.log = @ \o ExtractedLog(inv[h].fn, formData)]]
  /\ UNCHANGED <<variant, sheetExists, sheet>>

\* the log line the second script of part_001 writes before it sends
SendingLog(v) == IF v = "VC" THEN <<LogMsg("Sending data to webhook for", "")>> ELSE <<>>

\* the log line testLastRow writes before it sends (part_001 only)
TestSendingLog(v) ==
  IF v \in {"VB", "VC"} THEN <<LogMsg("Sending data to webhook...", "")>> ELSE <<>>

\* if (!formData.email || formData.email.trim() === '') { ... return; }
Validate(h) ==
  /\ inv[h].pc = "validate"
  /\ inv' = [inv EXCEPT ![h] =
       IF EmailMissing(@.formData)
       THEN Returned(@, "emailMissing", <<LogMsg("Error: Email is required but not found", "")>>)
       ELSE [@ EXCEPT !.pc = "send",
                      !.log = @ \o (IF inv[h].fn = "testLastRow"
                                     THEN TestSendingLog(variant)
                                     ELSE SendingLog(variant))]]
  /\ UNCHANGED <<variant, sheetExists, sheet>>

\* Mutant of AfterSend: the request is fired and the handler returns at once
AfterSendNoWait == "done"

\* const response = UrlFetchApp.fetch(...): the call is synchronous, the
\* function waits for the response or the exception
AfterSend == "await"

\* sendToWebhook(formData) up to its UrlFetchApp.fetch(WEBHOOK_URL, options):
\* the POST leaves with JSON.stringify(payload) as its body
Send(h) ==
  /\ inv[h].pc = "send"
  /\ inv' = [inv EXCEPT ![h].sent = Append(@, Payload(inv[h].formData)),
                        ![h].body = Append(@, JsonStringify(Payload(inv[h].formData))),
                        ![h].pc = AfterSend]
  /\ UNCHANGED <<variant, sheetExists, sheet>>

\* Mutant of AfterFetch: a failed delivery is sent again
AfterFetchRetry(result) == IF result.success THEN "report" ELSE "send"

\* Mutant of AfterFetch: after an exception of the fetch the function waits
\* for another response
AfterFetchWaitAgain(result) ==
  IF result.success \/ "statusCode" \in DOMAIN result THEN "report" ELSE "await"

\* where sendToWebhook goes once its fetch has returned or thrown: it returns
\* to its caller, which reports the result
AfterFetch(result) == "report"

\* Mutant of SendHasTryCatch: sendToWebhook without its try/catch
SendNoTryCatch == FALSE

\* Whether the body of sendToWebhook runs inside try { } catch (error) { }
SendHasTryCatch == TRUE

\* the fetch returns a response or throws, and sendToWebhook returns its result;
\* an exception sendToWebhook did not catch would reach onFormSubmit
FetchReturn(h, o) ==
  /\ inv[h].pc = "await"
  /\ inv' = [inv EXCEPT ![h] =
       IF o.kind = "throw" /\ ~SendHasTryCatch
       THEN Thrown(variant, [@ EXCEPT !.fetch = o], ErrorToString(o.err))
       ELSE [@ EXCEPT !.fetch = o,
                      !.result = ResultOfFetch(o),
                      !.pc = AfterFetch(ResultOfFetch(o))]]
  /\ UNCHANGED <<variant, sheetExists, sheet>>

\* response.error || 'Unknown error'
ErrorOrUnknown(result) == IF result.error # "" THEN result.error ELSE "Unknown error"

SuccessLog(v) ==
  CASE v \in {"V14", "VA"} -> <<LogMsg("Successfully sent data to webhook for", "")>>
    [] v = "VB" -> <<LogMsg("Successfully sent data to webhook for", ""),
                     LogMsg("Status code", "")>>
    [] v = "VC" -> <<LogMsg("Successfully sent data to webhook!", ""),
                     LogMsg("Status code", ""),
                     LogMsg("Check Make.com for the execution.", "")>>

\* Mutant of FailureLog: the else branch logs the success lines
FailureLogAsSuccess(v, result) == SuccessLog(v)

\* the lines onFormSubmit logs in the else branch of if (response.success)
FailureLog(v, result) ==
  IF v \in {"V14", "VA"}
  THEN <<LogMsg("Error sending to webhook", result.error)>>
  ELSE <<LogMsg("Error sending to webhook", ""),
         LogMsg("Status code", ""),
         LogMsg("Error", ErrorOrUnknown(result))>>

\* what testLastRow and testWebhook log for a successful delivery
TestSuccessLog(v, fn) ==
  IF fn = "testLastRow"
  THEN <<LogMsg("Successfully sent data to webhook!", ""), LogMsg("Status", ""),
         LogMsg("Check Make.com for the execution.", "")>>
  ELSE IF v = "V14"
       THEN <<LogMsg("Test successful! Status", ""), LogMsg("Response", "")>>
       ELSE <<LogMsg("Test successful!", ""), LogMsg("Check Make.com for the execution.", "")>>

\* what testLastRow and testWebhook log for a failed delivery
TestFailureLog(v, fn, result) ==
  LET detail == IF v \in {"VB", "VC"} THEN ErrorOrUnknown(result) ELSE result.error
  IN  IF fn = "testLastRow"
      THEN <<LogMsg("Failed to send data to webhook!", ""), LogMsg("Error", detail)>>
      ELSE <<LogMsg("Test failed! Error", detail)>>

\* Mutant of SheetAfterReport: the outcome is written into the processed row
SheetAfterReportMarked(sh, r) ==
  IF r.lastRow \in 1..Len(sh)
  THEN [sh EXCEPT ![r.lastRow] =
          [@ EXCEPT ![Len(@)] = IF r.result.success
                                THEN Str(<<"s", "e", "n", "t">>)
                                ELSE Str(<<"f", "a", "i", "l", "e", "d">>)]]
  ELSE sh

\* the sheet once the outcome is reported: the functions only call
\* Logger.log here, no setValue, so the sheet is as it was
SheetAfterReport(sh, r) == sh

\* if (response.success) { log success } else { log the error }
Report(h) ==
  /\ inv[h].pc = "report"
  /\ inv' = [inv EXCEPT ![h] =
       IF inv[h].fn = "sendToWebhook"
       THEN Returned(@, IF @.result.success THEN "delivered" ELSE "failed", <<>>)
       ELSE IF inv[h].fn = "onFormSubmit"
       THEN IF @.result.success
            THEN Returned(@, "delivered", SuccessLog(variant))
            ELSE Returned(@, "failed", FailureLog(variant, @.result))
       ELSE IF @.result.success
            THEN Returned(@, "delivered", TestSuccessLog(variant, inv[h].fn))
            ELSE Returned(@, "failed", TestFailureLog(variant, inv[h].fn, @.result))]
  /\ sheet' = SheetAfterReport(sheet, inv[h])
  /\ UNCHANGED <<variant, sheetExists>>

-----------------------------------------------------------------------------
(* testLastRow, testWebhook, and getFormData called on its own *)

\* The script has a testLastRow function (the 14-column script has none)
HasTestLastRow(v) == v \in {"VA", "VB", "VC"}

\* testLastRow() is run from the editor
TestLastRow(h) ==
  /\ inv[h].pc = "idle" /\ HasTestLastRow(variant)
  /\ inv' = [inv EXCEPT ![h].fn = "testLastRow", ![h].pc = "start",
                        ![h].log = IF variant \in {"VB", "VC"}
                                   THEN <<LogMsg("=== TESTING WITH LAST ROW DATA ===", "")>>
                                   ELSE <<>>]
  /\ UNCHANGED <<variant, sheetExists, sheet>>

\* SpreadsheetApp.getActiveSpreadsheet().getSheetByName(SHEET_NAME)
TestLastRowStart(h) ==
  /\ inv[h].pc = "start" /\ inv[h].fn = "testLastRow"
  /\ inv' = [inv EXCEPT ![h] =
       IF ~sheetExists
       THEN Returned(@, "noSheet", <<LogMsg("Error: Sheet not found", ""),
                                     LogMsg("Available sheets", "")>>)
       ELSE [@ EXCEPT !.pc = "lastRow"]]
  /\ UNCHANGED <<variant, sheetExists, sheet>>

\* const testData = { ... }
TestData(v, now) ==
  [timestamp |-> Str(ToISOString(now)),
   name |-> Str(<<"T", "e", "s", "t", " ", "U", "s", "e", "r">>),
   email |-> Str(<<"t", "e", "s", "t", "@", "e", "x", "a", "m", "p", "l", "e", ".", "c",
                   "o", "m">>),
   phone |-> Str(<<"+", "9", "6", "8", " ", "1", "2", "3", "4", " ", "5", "6", "7", "8">>),
   language |-> Str(<<"e", "n">>),
   status |-> EmptyStr,
   attendance |-> Str(<<"Y", "e", "s", ",", " ", "I", "'", "l", "l", " ", "a", "t", "t",
                        "e", "n", "d">>),
   response |-> Str(<<"Y", "e", "s", ",", " ", "I", "'", "l", "l", " ", "a", "t", "t",
                      "e", "n", "d">>),
   responseDate |-> EmptyStr,
   comments |-> Str(IF v \in {"VB", "VC"}
                    THEN <<"T", "h", "i", "s", " ", "i", "s", " ", "a", " ", "t", "e",
                           "s", "t", " ", "s", "u", "b", "m", "i", "s", "s", "i", "o",
                           "n", " ", "f", "r", "o", "m", " ", "A", "p", "p", "s", " ",
                           "S", "c", "r", "i", "p", "t">>
                    ELSE <<"T", "h", "i", "s", " ", "i", "s", " ", "a", " ", "t", "e",
                           "s", "t", " ", "s", "u", "b", "m", "i", "s", "s", "i", "o",
                           "n">>)]

\* testWebhook() is run from the editor
TestWebhook(h) ==
  /\ inv[h].pc = "idle"
  /\ inv' = [inv EXCEPT ![h].fn = "testWebhook", ![h].pc = "start"]
  /\ UNCHANGED <<variant, sheetExists, sheet>>

\* testWebhook builds testData, logs, and calls sendToWebhook(testData)
TestWebhookStart(h) ==
  /\ inv[h].pc = "start" /\ inv[h].fn = "testWebhook"
  /\ \E now \in Clock :
       inv' = [inv EXCEPT ![h].now = now, ![h].formData = TestData(variant, now),
                          ![h].log = @ \o <<LogMsg("Testing webhook", "")>>,
                          ![h].pc = "send"]
  /\ UNCHANGED <<variant, sheetExists, sheet>>

\* diagnoseSheetStructure() is run from the editor: it reads the header row
\* (the 14-column script also the first and last data rows) and logs; reading
\* the header of an empty sheet throws into its catch block
DiagnoseSheetStructure(h) ==
  /\ inv[h].pc = "idle"
  /\ inv' = [inv EXCEPT ![h] =
       LET r == [@ EXCEPT !.fn = "diagnoseSheetStructure"]
       IN  IF ~sheetExists
           THEN Returned(r, "noSheet", <<LogMsg("Error: Sheet not found", ""),
                                         LogMsg("Available sheets", "")>>)
           ELSE IF Len(sheet) < 1
           THEN Returned([r EXCEPT !.log = <<LogMsg("=== SHEET STRUCTURE DIAGNOSIS ===", "")>>],
                         "fault",
                         <<LogMsg("Error", "Exception: The number of columns in the range must be at least 1.")>>)
           ELSE Returned(r, "diagnosed",
                         <<LogMsg("=== SHEET STRUCTURE DIAGNOSIS ===", ""),
                           LogMsg("=== HEADER ROW ===", "")>>)]
  /\ UNCHANGED <<variant, sheetExists, sheet>>

\* the attendance and response of the records passed in: each is missing
\* (undefined), '', a text or a number, and where both are present they differ
AttendanceAndResponse ==
  {<<Undef, Undef>>, <<Undef, Str(<<"n", "o">>)>>, <<EmptyStr, Str(<<"n", "o">>)>>,
   <<EmptyStr, EmptyStr>>, <<Str(<<"y", "e", "s">>), Undef>>,
   <<Str(<<"y", "e", "s">>), Str(<<"n", "o">>)>>, <<Num(5), EmptyStr>>}

\* a record with timestamp, name and email, and with attendance a and
\* response r where these are not undefined
Record(a, r) ==
  LET all == [timestamp |-> Str(<<"n", "o", "w">>), name |-> Str(<<"A">>),
              email |-> Str(<<"a", "@", "b">>), attendance |-> a, response |-> r]
  IN  [k \in {j \in DOMAIN all : all[j] # Undef} |-> all[k]]

\* sendToWebhook(data) is called with a record of the caller's own
CallSendToWebhook(h) ==
  /\ inv[h].pc = "idle"
  /\ \E ar \in AttendanceAndResponse :
       inv' = [inv EXCEPT ![h].fn = "sendToWebhook", ![h].pc = "send",
                          ![h].formData = Record(ar[1], ar[2])]
  /\ UNCHANGED <<variant, sheetExists, sheet>>

\* getFormData(rowData) is called with an array of any length
CallGetFormData(h) ==
  /\ inv[h].pc = "idle"
  /\ \E rowData \in Arrays(variant) :
       inv' = [inv EXCEPT ![h].fn = "getFormData", ![h].pc = "normalize",
                          ![h].rowData = rowData]
  /\ UNCHANGED <<variant, sheetExists, sheet>>

-----------------------------------------------------------------------------
(* One invocation on any sheet state *)

Handlers == DOMAIN inv

Init ==
  /\ variant \in Variants
  /\ sheetExists \in BOOLEAN
  /\ sheet \in (IF sheetExists THEN InitSheets(variant) ELSE {<<>>})
  /\ inv = [h \in {1} |-> Idle]

Next ==
  \/ \E h \in Handlers, e \in {"form", "undefined", "nosource"} : Invoke(h, e)
  \/ \E h \in Handlers : Start(h)
  \/ \E h \in Handlers : TestLastRow(h)
  \/ \E h \in Handlers : TestLastRowStart(h)
  \/ \E h \in Handlers : TestWebhook(h)
  \/ \E h \in Handlers : TestWebhookStart(h)
  \/ \E h \in Handlers : DiagnoseSheetStructure(h)
  \/ \E h \in Handlers : CallGetFormData(h)
  \/ \E h \in Handlers : CallSendToWebhook(h)
  \/ \E h \in Handlers : GetLastRow(h)
  \/ \E h \in Handlers : GetRange(h)
  \/ \E h \in Handlers : ServiceFault(h)
  \/ \E h \in Handlers : Normalize(h)
  \/ \E h \in Handlers : Validate(h)
  \/ \E h \in Handlers : Send(h)
  \/ \E h \in Handlers, o \in FetchOutcomes : FetchReturn(h, o)
  \/ \E h \in Handlers : Report(h)

Spec == Init /\ [][Next]_vars

\* the next statement of a running function, other than the call of
\* getFormData: the runtime runs a started function statement after statement,
\* and UrlFetchApp.fetch returns a response or throws
Step(h) ==
  \/ Start(h) \/ TestLastRowStart(h) \/ TestWebhookStart(h)
  \/ GetLastRow(h) \/ GetRange(h) \/ Validate(h) \/ Send(h)
  \/ \E o \in FetchOutcomes : FetchReturn(h, o)
  \/ Report(h)

\* weak fairness of Normalize(h), written with the state predicate that
\* ENABLED <<Normalize(h)>>_vars is equal to: the call of getFormData is
\* enabled exactly when the function stands at it
NormalizeRuns(h) ==
  <>[](inv[h].pc = "normalize") => []<><<Normalize(h)>>_vars

\* a started function is run on
SpecLive == Spec /\ \A h \in {1} : WF_vars(Step(h)) /\ NormalizeRuns(h)

-----------------------------------------------------------------------------
(* onFormSubmit as a function of its inputs, to compare the scripts *)

\* The JSON bodies onFormSubmit(e) of script v POSTs when the spreadsheet
\* service does not fail, given what it reads of the sheet: whether the sheet
\* exists, its getLastRow(), and the values of that row. None when a check
\* returns early or e.source / getRange / getFormData throws into the catch
\* block
onFormSubmitPosts(v, e, exists, lastRow, rowData, now) ==
  IF e # "form" \/ ~exists THEN <<>>
  ELSE IF HasDataRowGuard(v) /\ lastRow < 2 THEN <<>>
  ELSE IF lastRow < 1 THEN <<>>
  ELSE IF GetFormDataThrows(v, rowData) THEN <<>>
  ELSE LET formData == getFormData(v, rowData, now)
       IN  IF EmailMissing(formData) THEN <<>>
           ELSE <<JsonStringify(Payload(formData))>>

\* The logical fields of a row under script v's column mapping
LogicalFields(v, rowData) ==
  [k \in DOMAIN BaseFields |->
     IF k \in DOMAIN COLUMN_MAPPING(v) THEN Cell(v, rowData, k) ELSE EmptyStr]

\* The row of script v laid out for script w: the same logical field values
\* at w's column offsets, as getValues returns it for a sheet of w's width
RowFor(w, v, rowData) == Narrow(MkRow(w, LogicalFields(v, rowData)), NumColumns(w))

-----------------------------------------------------------------------------
(* Overlapping form submissions: each appends its row to the sheet and fires
   the trigger; the invocations run in any interleaving *)

Submit(h, r) ==
  /\ inv[h].pc = "idle"
  /\ \A g \in Handlers : g < h => inv[g].pc # "idle"
  /\ sheet' = Append(sheet, r)
  /\ inv' = [inv EXCEPT ![h].fn = "onFormSubmit", ![h].pc = "start",
                        ![h].e = "form", ![h].trig = Len(sheet) + 1]
  /\ UNCHANGED <<variant, sheetExists>>

InitConc ==
  /\ variant \in Variants
  /\ sheetExists = TRUE
  /\ sheet = <<Header(variant)>>
  /\ inv = [h \in 1..MaxSubmits |-> Idle]

\* the webhook answers 200, answers 500, or cannot be reached
ConcOutcomes ==
  {HttpResponse(200, "OK"), HttpResponse(500, "Internal Error"), HttpThrow("timeout")}

NextConc ==
  \/ \E h \in Handlers, r \in ConcRows(variant) : Submit(h, r)
  \/ \E h \in Handlers : Start(h)
  \/ \E h \in Handlers : GetLastRow(h)
  \/ \E h \in Handlers : GetRange(h)
  \/ \E h \in Handlers : Normalize(h)
  \/ \E h \in Handlers : Validate(h)
  \/ \E h \in Handlers : Send(h)
  \/ \E h \in Handlers, o \in ConcOutcomes : FetchReturn(h, o)
  \/ \E h \in Handlers : Report(h)

SpecConc == InitConc /\ [][NextConc]_vars

-----------------------------------------------------------------------------
(* Properties *)

\* the invocation has read its row
RowRead(r) == r.pc \in {"normalize", "validate", "send", "await", "report", "done"}
              /\ r.rowData # <<>>

\* a cell that is empty, missing, or holds only white space
BlankCell(c) ==
  \/ c.t = "undef"
  \/ c.t = "str" /\ \A i \in 1..Len(c.s) : IsSpace(c.s[i])

\* C1: in every variant, an invocation of onFormSubmit whose row has an empty,
\* missing or white-space-only email cell issues no HTTP POST.
C1_BlankEmailNeverPosted ==
  \A h \in Handlers :
    (RowRead(inv[h]) /\ BlankCell(Cell(variant, inv[h].rowData, "EMAIL")))
      => inv[h].sent = <<>>

\* C1 witness: a row whose email cell is white space only was read and the
\* handler returned at the email check.
C1_Witness ==
  \E h \in Handlers :
    /\ inv[h].pc = "done" /\ inv[h].outcome = "emailMissing"
    /\ RowRead(inv[h])
    /\ Cell(variant, inv[h].rowData, "EMAIL") = Str(<<" ", "\t">>)

\* the invocations that issued a POST for row r of the sheet
PostersOf(r) == {h \in Handlers : inv[h].sent # <<>> /\ inv[h].lastRow = r}

\* C2: when submissions overlap, once every invocation has ended each appended
\* row with a non-empty email was POSTed exactly once, by the invocation its
\* append fired, with that row's own data; no row is skipped or sent twice.
C2_EachRowPostedOnce ==
  (\A h \in Handlers : inv[h].pc \in {"idle", "done"})
    => \A r \in 2..Len(sheet) :
         ~BlankCell(Cell(variant, sheet[r], "EMAIL"))
           => /\ Cardinality(PostersOf(r)) = 1
              /\ \A h \in PostersOf(r) :
                   /\ inv[h].trig = r
                   /\ inv[h].sent[1] = Payload(getFormData(variant, sheet[r], inv[h].now))

\* C3: when the fetch throws, sendToWebhook returns success = false, no
\* statusCode and a non-empty error text, and its caller goes on normally
\* (the exception does not reach onFormSubmit).
C3_TransportFailureIsResult ==
  \A h \in Handlers :
    (inv[h].fetch # Null /\ inv[h].fetch.kind = "throw")
      => /\ inv[h].result # Null
         /\ DOMAIN inv[h].result = {"success", "error"}
         /\ inv[h].result.success = FALSE
         /\ inv[h].result.error # ""
         /\ inv[h].outcome \in {"none", "failed"}

\* C3 witness: a fetch threw and the handler ended with a failed delivery.
C3_Witness ==
  \E h \in Handlers :
    /\ inv[h].pc = "done" /\ inv[h].outcome = "failed"
    /\ inv[h].fetch = HttpThrow("dns")
    /\ inv[h].result = [success |-> FALSE, error |-> "Exception: DNS error"]

\* C4: for a response with 200 <= c < 300, sendToWebhook returns
\* success = true, statusCode = c and response = the body text.
C4_SuccessResult ==
  \A h \in Handlers :
    (/\ inv[h].fetch # Null /\ inv[h].fetch.kind = "response"
     /\ 200 <= inv[h].fetch.code /\ inv[h].fetch.code < 300)
      => inv[h].result = [success |-> TRUE, statusCode |-> inv[h].fetch.code,
                          response |-> inv[h].fetch.body]

\* C4 witness: status 200 with body "OK".
C4_Witness ==
  \E h \in Handlers :
    /\ inv[h].fetch = HttpResponse(200, "OK")
    /\ inv[h].result = [success |-> TRUE, statusCode |-> 200, response |-> "OK"]

\* C5: for a response with c outside [200, 300), sendToWebhook returns
\* success = false, statusCode = c and error = the body text.
C5_FailureResult ==
  \A h \in Handlers :
    (/\ inv[h].fetch # Null /\ inv[h].fetch.kind = "response"
     /\ (inv[h].fetch.code < 200 \/ inv[h].fetch.code >= 300))
      => inv[h].result = [success |-> FALSE, statusCode |-> inv[h].fetch.code,
                          error |-> inv[h].fetch.body]

\* C5 witness: status 500 with body "Internal Error".
C5_Witness ==
  \E h \in Handlers :
    /\ inv[h].fetch = HttpResponse(500, "Internal Error")
    /\ inv[h].result = [success |-> FALSE, statusCode |-> 500,
                         error |-> "Internal Error"]

\* C6: a call of sendToWebhook performs exactly one UrlFetchApp.fetch, whatever
\* the response or failure: one while the fetch is in flight, still one once
\* the result is returned.
C6_OneFetchPerSend ==
  \A h \in Handlers :
    (inv[h].pc \in {"await", "report"} \/ inv[h].result # Null)
      => Len(inv[h].sent) = 1

\* C6 witness: sendToWebhook returned a failure (a retry would show here) and
\* the handler ended.
C6_Witness ==
  \E h \in Handlers :
    /\ inv[h].pc = "done" /\ inv[h].result # Null
    /\ inv[h].result.success = FALSE
    /\ Len(inv[h].sent) = 1

\* the event context, the sheet, a data row and a non-empty email are present
AllPresent(h) ==
  /\ inv[h].e = "form"
  /\ sheetExists
  /\ Len(sheet) >= 2
  /\ ~BlankCell(Cell(variant, sheet[Len(sheet)], "EMAIL"))

\* C7: an invocation of onFormSubmit that ended without a fault issued at most
\* one POST: exactly one when the event, the sheet, a data row and a non-empty
\* email are all present, none otherwise. (Stated for text email cells.)
C7_PostIffAllPresent ==
  \A h \in Handlers :
    (/\ inv[h].fn = "onFormSubmit"
     /\ inv[h].pc = "done" /\ inv[h].outcome # "fault"
     /\ (Len(sheet) >= 2 => Cell(variant, sheet[Len(sheet)], "EMAIL").t = "str"))
      => /\ Len(inv[h].sent) <= 1
         /\ Len(inv[h].sent) = 1 <=> AllPresent(h)

\* C8: invoked without an event context (e undefined or without source),
\* onFormSubmit logs something, POSTs nothing, and ends normally.
C8_NoEventIsNoOp ==
  \A h \in Handlers :
    (inv[h].pc = "done" /\ inv[h].e \in {"undefined", "nosource"})
      => /\ inv[h].log # <<>>
         /\ inv[h].sent = <<>>
         /\ inv[h].outcome \in {"noEvent", "fault"}

\* C8 witness: the 14-column script, which has no event check, was run with
\* no event and ended.
C8_Witness ==
  \E h \in Handlers :
    /\ variant = "V14" /\ inv[h].e = "undefined"
    /\ inv[h].pc = "done" /\ inv[h].log # <<>>

\* C9: no exception escapes onFormSubmit; a fault is caught and logged by the
\* handler's catch block, the handler has returned and made no webhook call.
C9_FaultsCaughtAndLogged ==
  \A h \in Handlers :
    /\ inv[h].outcome # "escaped"
    /\ (inv[h].fn = "onFormSubmit" /\ inv[h].outcome = "fault")
         => /\ inv[h].pc = "done"
            /\ inv[h].sent = <<>>
            /\ \E i \in 1..Len(inv[h].log) :
                 /\ inv[h].log[i].msg = "Error in onFormSubmit"
                 /\ inv[h].log[i].detail # ""

\* C9 witness: a fault while the sheet was read, on a real form event.
C9_Witness ==
  \E h \in Handlers :
    /\ inv[h].e = "form" /\ inv[h].outcome = "fault"
    /\ inv[h].lastRow >= 2

\* the string form of a cell, trimmed and lower-cased
TrimmedLower(c) ==
  IF c.t = "undef" THEN <<>> ELSE ToLowerCase(Trim(JsToString(c)))

Normalized(r) == r.formData # Null /\ r.fn \notin {"testWebhook", "sendToWebhook"}

\* the timestamp of a Date Added cell c: a date gives its ISO string, a
\* non-empty string itself (when blankIsEmpty, a string that is not white space
\* only), anything else the current time
TimestampOfDateAdded(c, now, blankIsEmpty) ==
  CASE c.t = "date" -> Str(ToISOString(c.n))
    [] c.t = "str" /\ c.s # <<>> /\ (blankIsEmpty => Trim(c.s) # <<>>) -> c
    [] OTHER -> Str(ToISOString(now))

ProcessesRow(r) == r.fn \in {"onFormSubmit", "testLastRow"}

\* C12: in every JSON body that onFormSubmit or testLastRow POSTs for a row,
\* the value of attendance equals the value of response.
C12_AttendanceEqualsResponse ==
  \A h \in Handlers :
    ProcessesRow(inv[h])
      => \A i \in 1..Len(inv[h].body) :
           /\ {"attendance", "response"} \subseteq DOMAIN inv[h].body[i]
           /\ inv[h].body[i].attendance = inv[h].body[i].response

\* C12 witness: testLastRow POSTed a row whose response cell is empty while
\* its status is not, and both attendance and response are ''.
C12_Witness ==
  \E h \in Handlers :
    /\ inv[h].fn = "testLastRow" /\ Len(inv[h].body) = 1
    /\ Cell(variant, inv[h].rowData, "RESPONSE") = EmptyStr
    /\ inv[h].body[1].status = Str(<<"n", "e", "w">>)
    /\ inv[h].body[1].attendance = EmptyStr
    /\ inv[h].body[1].response = EmptyStr

\* C13: every JSON body sendToWebhook POSTs, whoever called it (onFormSubmit,
\* testLastRow or testWebhook), has exactly the ten keys timestamp, name,
\* email, phone, language, status, attendance, response, responseDate and
\* comments; the key dateAdded of the record is not sent.
C13_ExactlyTenKeys ==
  \A h \in Handlers :
    \A i \in 1..Len(inv[h].body) :
      DOMAIN inv[h].body[i] =
        {"timestamp", "name", "email", "phone", "language", "status",
         "attendance", "response", "responseDate", "comments"}

\* C13 witness: a record that carries the key dateAdded was POSTed by
\* onFormSubmit without it.
C13_Witness ==
  \E h \in Handlers :
    /\ inv[h].fn = "onFormSubmit" /\ Len(inv[h].body) = 1
    /\ "dateAdded" \in DOMAIN inv[h].formData
    /\ "dateAdded" \notin DOMAIN inv[h].body[1]
    /\ Cardinality(DOMAIN inv[h].body[1]) = 10

\* C14: in every variant, each of the ten values of a JSON body that
\* onFormSubmit POSTs for a row is a JSON string, whatever the cells held
\* (text, number, date, empty); an absent value is the empty string.
C14_AllValuesAreStrings ==
  \A h \in Handlers :
    inv[h].fn = "onFormSubmit"
      => \A i \in 1..Len(inv[h].body) :
           \A k \in DOMAIN inv[h].body[i] : inv[h].body[i][k].t = "str"

\* the record key that holds the value of a mapped column
FieldOfColumn ==
  [NAME |-> "name", EMAIL |-> "email", PHONE |-> "phone", LANGUAGE |-> "language",
   STATUS |-> "status", RESPONSE |-> "response", RESPONSE_DATE |-> "responseDate",
   COMMENTS |-> "comments"]

\* the string form of a cell with leading and trailing white space removed
\* ('' for an empty or missing cell)
TrimmedForm(c) == IF c.t = "undef" THEN <<>> ELSE Trim(JsToString(c))

\* C15: in every variant, each field other than timestamp that getFormData
\* returns is the string form of its cell, trimmed. Read with the other claims:
\* email is compared in lower case (C10), and language is compared without
\* regard to letter case, an empty one being '' or the default "en" (C16, C18).
C15_FieldsAreTrimmedStrings ==
  \A h \in Handlers :
    Normalized(inv[h])
      => \A key \in DOMAIN FieldOfColumn :
           LET got == inv[h].formData[FieldOfColumn[key]]
               t == TrimmedForm(Cell(variant, inv[h].rowData, key))
           IN  /\ got.t = "str"
               /\ CASE key = "EMAIL" -> got.s = ToLowerCase(t)
                    [] key = "LANGUAGE" ->
                         \/ ToLowerCase(got.s) = ToLowerCase(t)
                         \/ t = <<>> /\ got.s = <<"e", "n">>
                    [] OTHER -> got.s = t

\* C16: in every variant, a row whose language cell is empty or missing
\* normalizes to language "en", and the JSON POSTed for it carries "en".
C16_EmptyLanguageIsEn ==
  \A h \in Handlers :
    (Normalized(inv[h])
     /\ Cell(variant, inv[h].rowData, "LANGUAGE") \in {EmptyStr, Undef})
      => /\ inv[h].formData.language = Str(<<"e", "n">>)
         /\ \A i \in 1..Len(inv[h].body) :
              inv[h].body[i].language = Str(<<"e", "n">>)

\* C16 witness: a row of a sheet too narrow to have a language column was
\* POSTed with language "en".
C16_Witness ==
  \E h \in Handlers :
    /\ inv[h].fn = "onFormSubmit" /\ Len(inv[h].body) = 1
    /\ Cell(variant, inv[h].rowData, "LANGUAGE") = Undef
    /\ inv[h].formData.language = Str(<<"e", "n">>)
    /\ inv[h].body[1].language = Str(<<"e", "n">>)

\* C17: in every variant, a field whose cell is empty after trimming takes its
\* default: language becomes "en" in the record and in the POSTed JSON, and
\* name, phone, status, response, responseDate and comments become ''.
C17_BlankCellTakesDefault ==
  \A h \in Handlers :
    Normalized(inv[h])
      => \A key \in DOMAIN FieldOfColumn \ {"EMAIL"} :
           LET c == Cell(variant, inv[h].rowData, key)
           IN  (c.t = "str" /\ Trim(c.s) = <<>>)
                 => IF key = "LANGUAGE"
                    THEN /\ inv[h].formData.language = Str(<<"e", "n">>)
                         /\ \A i \in 1..Len(inv[h].body) :
                              inv[h].body[i].language = Str(<<"e", "n">>)
                    ELSE inv[h].formData[FieldOfColumn[key]] = EmptyStr

\* a string without upper-case letters and without white space at its ends
LowerTrimmed(x) ==
  /\ x.t = "str"
  /\ \A i \in 1..Len(x.s) : ~IsUpper(x.s[i])
  /\ Trim(x.s) = x.s

GetFormDataEnded(r) == r.fn # "testWebhook" /\ r.now # 0

\* the columns the timestamp is read from
TimestampColumns(v) == IF v = "V14" THEN {"TIMESTAMP", "DATE_ADDED"} ELSE {"DATE_ADDED"}

\* C19: in every variant getFormData throws nothing, whatever the length of
\* the row array (shorter than the mapping, or empty) and the types of its
\* cells: it returns a record in which every field whose cell is missing or
\* empty has its default ("en" for language, the current time for timestamp,
\* '' for the others).
C19_GetFormDataNeverThrows ==
  \A h \in Handlers :
    GetFormDataEnded(inv[h])
      => /\ inv[h].formData # Null
         /\ inv[h].outcome \notin {"fault", "escaped"}
         /\ \A key \in DOMAIN FieldOfColumn :
              Cell(variant, inv[h].rowData, key) \in {EmptyStr, Undef}
                => inv[h].formData[FieldOfColumn[key]] =
                     (IF key = "LANGUAGE" THEN Str(<<"e", "n">>) ELSE EmptyStr)
         /\ (\A key \in TimestampColumns(variant) :
                Cell(variant, inv[h].rowData, key) \in {EmptyStr, Undef})
              => inv[h].formData.timestamp = Str(ToISOString(inv[h].now))

\* C19 witness: getFormData was called with the empty array and returned the
\* record of defaults.
C19_Witness ==
  \E h \in Handlers :
    /\ inv[h].fn = "getFormData" /\ inv[h].rowData = <<>>
    /\ inv[h].pc = "done" /\ inv[h].outcome = "returned"
    /\ inv[h].formData.language = Str(<<"e", "n">>)
    /\ inv[h].formData.email = EmptyStr
    /\ inv[h].formData.timestamp = Str(ToISOString(inv[h].now))

\* what script w POSTs for the event and sheet state of invocation h
PostsOf(w, h) ==
  onFormSubmitPosts(w, inv[h].e, sheetExists, Len(sheet),
                    IF sheet = <<>> THEN <<>>
                    ELSE RowFor(w, variant, sheet[Len(sheet)]),
                    inv[h].now)

\* onFormSubmit ran to its end without a failure of the spreadsheet service
RanToEnd(r) ==
  /\ r.fn = "onFormSubmit" /\ r.pc = "done"
  /\ r.outcome = "fault" => (r.e # "form" \/ r.lastRow < 1)

C21_SheetNeverWritten ==
  [][sheet' = sheet /\ sheetExists' = sheetExists]_vars

\* C21 witness: a delivery failed, the handler has ended, and the row it
\* processed is still in the sheet exactly as it was read.
C21_Witness ==
  \E h \in Handlers :
    /\ inv[h].fn = "onFormSubmit" /\ inv[h].pc = "done"
    /\ inv[h].outcome = "failed" /\ inv[h].lastRow >= 2
    /\ sheet[inv[h].lastRow] = inv[h].rowData

\* C22: within one onFormSubmit the steps come in the order read last row,
\* getFormData, email check, sendToWebhook, outcome log: a record exists only
\* for a row that was read, a POST only for a record that passed the email
\* check, a result only for a POST that was made, and the handler has not
\* returned after a POST unless the fetch has returned or thrown and the
\* outcome is logged.
C22_StepsInOrder ==
  \A h \in Handlers :
    inv[h].fn = "onFormSubmit"
      => /\ inv[h].formData # Null
              => /\ inv[h].lastRow >= 1
                 /\ inv[h].rowData = sheet[inv[h].lastRow]
         /\ inv[h].sent # <<>>
              => /\ inv[h].formData # Null
                 /\ ~EmailMissing(inv[h].formData)
                 /\ inv[h].sent = <<Payload(inv[h].formData)>>
         /\ inv[h].result # Null
              => /\ inv[h].sent # <<>>
                 /\ inv[h].fetch # Null
         /\ inv[h].outcome \in {"delivered", "failed"} => inv[h].result # Null
         /\ (inv[h].pc = "done" /\ inv[h].sent # <<>>)
              => /\ inv[h].result # Null
                 /\ inv[h].outcome \in {"delivered", "failed"}

\* C22 witness: an invocation went through all five steps and returned after
\* the fetch had thrown.
C22_Witness ==
  \E h \in Handlers :
    /\ inv[h].fn = "onFormSubmit" /\ inv[h].pc = "done"
    /\ inv[h].outcome = "failed"
    /\ inv[h].fetch = HttpThrow("timeout")
    /\ inv[h].rowData = sheet[inv[h].lastRow]
    /\ inv[h].sent = <<Payload(inv[h].formData)>>

\* the log entries that report a successful delivery, and a failed one
SuccessReports(log) ==
  {i \in 1..Len(log) : log[i].msg \in {"Successfully sent data to webhook for",
                                        "Successfully sent data to webhook!"}}
FailureReports(log) == {i \in 1..Len(log) : log[i].msg = "Error sending to webhook"}

\* C23: once onFormSubmit has ended after a dispatch, exactly one outcome
\* report is in its log and it matches the result: the success message if and
\* only if success = true, the error message, with the error text of the
\* result, if and only if success = false; without a result neither is logged.
C23_ReportMatchesResult ==
  \A h \in Handlers :
    inv[h].fn = "onFormSubmit"
      => LET log == inv[h].log
             result == inv[h].result
         IN  IF inv[h].pc = "done" /\ result # Null
             THEN /\ Cardinality(SuccessReports(log)) + Cardinality(FailureReports(log)) = 1
                  /\ Cardinality(SuccessReports(log)) = 1 <=> result.success
                  /\ ~result.success
                       => \E i \in 1..Len(log) :
                            /\ log[i].msg \in {"Error sending to webhook", "Error"}
                            /\ log[i].detail \in {result.error, ErrorOrUnknown(result)}
                            /\ result.error # "" => log[i].detail = result.error
             ELSE SuccessReports(log) = {} /\ FailureReports(log) = {}

\* C23 witness: a dispatch answered 500 "Internal Error" and the handler
\* logged the error message with that text, and no success message.
C23_Witness ==
  \E h \in Handlers :
    /\ inv[h].fn = "onFormSubmit" /\ inv[h].pc = "done"
    /\ inv[h].fetch = HttpResponse(500, "Internal Error")
    /\ Cardinality(FailureReports(inv[h].log)) = 1
    /\ SuccessReports(inv[h].log) = {}
    /\ \E i \in 1..Len(inv[h].log) : inv[h].log[i].detail = "Internal Error"

\* C24: in every variant, the email of every JSON body POSTed by onFormSubmit
\* or testLastRow is a non-empty string without upper-case letters and
\* without leading or trailing white space.
C24_PostedEmailIsClean ==
  \A h \in Handlers :
    ProcessesRow(inv[h])
      => \A i \in 1..Len(inv[h].body) :
           /\ LowerTrimmed(inv[h].body[i].email)
           /\ inv[h].body[i].email.s # <<>>

\* C24 witness: testLastRow POSTed a row whose email cell is " T@E.C " with
\* the email "t@e.c".
C24_Witness ==
  \E h \in Handlers :
    /\ inv[h].fn = "testLastRow" /\ Len(inv[h].body) = 1
    /\ Cell(variant, inv[h].rowData, "EMAIL") = Str(<<" ", "T", "@", "E", ".", "C", " ">>)
    /\ inv[h].body[1].email = Str(<<"t", "@", "e", ".", "c">>)

\* C25: in every variant, when the sheet has no data row (getLastRow() < 2:
\* the header row alone, or nothing) onFormSubmit makes no webhook call.
C25_NoDataRowNoPost ==
  \A h \in Handlers :
    (inv[h].fn = "onFormSubmit" /\ Len(sheet) < 2) => inv[h].sent = <<>>

\* a cell that holds something: neither missing nor the empty string
NonEmpty(c) == c # Undef /\ c # EmptyStr

\* a date value becomes its ISO string, any other value stays as it is
IsoIfDate(c) == IF c.t = "date" THEN Str(ToISOString(c.n)) ELSE c

\* C26: in the 14-column script getFormData takes the timestamp from the
\* Timestamp cell when that is non-empty, otherwise from the Date Added cell
\* when that is non-empty, otherwise from the current time; a date from any of
\* the three becomes its ISO string.
C26_TimestampPrecedenceV14 ==
  \A h \in Handlers :
    (variant = "V14" /\ Normalized(inv[h]))
      => LET ts == Cell(variant, inv[h].rowData, "TIMESTAMP")
             da == Cell(variant, inv[h].rowData, "DATE_ADDED")
         IN  inv[h].formData.timestamp =
               (IF NonEmpty(ts) THEN IsoIfDate(ts)
                ELSE IF NonEmpty(da) THEN IsoIfDate(da)
                ELSE Str(ToISOString(inv[h].now)))

TestLastRowEnded(r) ==
  /\ r.fn = "testLastRow" /\ r.pc = "done"
  /\ r.outcome = "fault" => r.rowData # <<>>

\* C28: in each script that has testLastRow, testLastRow and onFormSubmit are
\* equivalent on the same sheet state: testLastRow POSTs exactly when
\* onFormSubmit, fired by a form submission on that sheet, POSTs, and then with
\* the same JSON body for the last row.
C28_TestLastRowAsOnFormSubmit ==
  \A h \in Handlers :
    TestLastRowEnded(inv[h])
      => inv[h].body = onFormSubmitPosts(variant, "form", sheetExists, Len(sheet),
                                         IF sheet = <<>> THEN <<>> ELSE sheet[Len(sheet)],
                                         inv[h].now)
\* the outcomes of onFormSubmit: no event context, sheet not found, no data
\* row, email missing, delivered, delivery failed, unexpected fault
OnFormSubmitOutcomes ==
  {"noEvent", "noSheet", "noData", "emailMissing", "delivered", "failed", "fault"}

\* the invocation has returned in one of the seven outcomes and has logged
Terminated(r) ==
  /\ r.pc = "done"
  /\ r.outcome \in OnFormSubmitOutcomes
  /\ r.log # <<>>

\* C29: given that the fetch returns a response or throws, every invocation
\* of onFormSubmit eventually terminates, in exactly one of the outcomes no
\* event context, sheet not found, no data row, email missing, delivered,
\* delivery failed, unexpected fault, and with a log entry.
C29_OnFormSubmitTerminates ==
  \A h \in {1} : (inv[h].fn = "onFormSubmit") ~> Terminated(inv[h])

\* an invocation for a form submission ended in the catch block with the
\* exception logged
C29_Witness ==
  \E h \in Handlers :
    /\ inv[h].fn = "onFormSubmit" /\ inv[h].e = "form"
    /\ Terminated(inv[h]) /\ inv[h].outcome = "fault"
    /\ inv[h].log[Len(inv[h].log)].msg = "Error in onFormSubmit"
====
